---- MODULE Spec2Model ----
(***************************************************************************)
(* Model of the VocoEng message pipeline.                                  *)
(*                                                                         *)
(*   - the webhook listener (vocoeng-webhook-listener/app.py): the two     *)
(*     channel endpoints, their validation / authentication and the        *)
(*     publish to the inbound Pub/Sub topic;                               *)
(*   - the worker (vocoeng-worker/worker.py): the Pub/Sub callback, the    *)
(*     processing sequence, the Firestore writes and the response publish. *)
(*                                                                         *)
(*   - the frontend's session views and usage tracking                     *)
(*     (vocoeng-django-frontend/apps/users).                               *)
(*                                                                         *)
(* GatewaySpec runs the listener, Spec runs the worker, RedeliverySpec the *)
(* worker on a redelivering subscription under fairness, SessionSpec the   *)
(* session views and UsageSpec the usage tracking.                         *)
(***************************************************************************)
EXTENDS Integers, Sequences, FiniteSets, TLC

VARIABLES
    gwQueue,     \* inbound topic: the canonical messages published by the listener
    gwReq,       \* the HTTP request handled last
    gwEnv,       \* what the collaborators answered while it was handled
    gwResp,      \* the HTTP response it got
    gwHandled,   \* number of requests handled so far
    environ      \* os.environ of the listener process

VARIABLES
    dl,               \* the deliveries handed to callback so far, in arrival order
    turns,            \* conversations/{user}/messages: the documents, in add order
    summary,          \* conversations/{user}: the summary document
    responses,        \* response topic: the ProcessingResults published
    openai_client,    \* module global, "unset" until initialize_ai_clients
    anthropic_client, \* module global, "unset" until initialize_ai_clients
    clock             \* the worker's wall clock

VARIABLES
    sessions,    \* table user_sessions: the UserSession rows, by id
    djReq,       \* the frontend request handled last, with its response status
    api_usage_count, \* table users: column api_usage_count, by user
    api_usage,       \* table api_usage: the APIUsage rows, in creation order
    track            \* the track_api_usage requests received, with their progress

gwVars == <<gwQueue, gwReq, gwEnv, gwResp, gwHandled, environ>>

wkVars == <<dl, turns, summary, responses, openai_client, anthropic_client, clock>>

usageVars == <<api_usage_count, api_usage, track>>

djVars == <<sessions, djReq, api_usage_count, api_usage, track>>

vars == <<gwQueue, gwReq, gwEnv, gwResp, gwHandled, environ,
          dl, turns, summary, responses, openai_client, anthropic_client, clock,
          sessions, djReq, api_usage_count, api_usage, track>>

(***************************************************************************)
(* Bounds                                                                  *)
(***************************************************************************)
MaxRequests == 2
MaxDeliveries == 2
MaxStored == 22
MaxPulled == 102
MaxSessions == 3
MaxFailures == 1
MaxTracks == 3

(***************************************************************************)
(* Values                                                                  *)
(***************************************************************************)
\* An absent header / JSON key (Python None, or the key not in the dict).
Missing == "<missing>"

Users == {"u1", "u2"}
Texts == {"hello", "bye"}

\* Python truthiness of a header or a string field: None and '' are falsy.
Falsy(v) == v = Missing \/ v = ""

\* dict.get(key, ''): the default '' when the key is absent.
GetOr(v, default) == IF v = Missing THEN default ELSE v

(***************************************************************************)
(* Webhook listener                                                        *)
(***************************************************************************)
\* The secret 'api-webhook-key' as Secret Manager holds it.
ValidApiKey == "key-A"
SecretError == "<secret-error>"

\* access_secret_version: the secret's value, or the exception of a failed access.
GetSecretResults == {ValidApiKey, SecretError}

\* The environment variables a deployment can carry the API key in.
EnvNames == {"API-WEBHOOK-KEY", "API_WEBHOOK_KEY"}

\* get_secret: the payload of access_secret_version; its exception is logged and
\* re-raised. The process environment is not read.
get_secret(secret_name, accessed) == accessed

ApiKeys == {Missing, "", ValidApiKey, "key-B"}
Signatures == {Missing, "sha256=good", "sha256=bad"}
FieldValues(S) == {Missing, ""} \cup S

NoRequest ==
    [endpoint |-> "none", json |-> "none", key |-> Missing, sig |-> Missing,
     user |-> Missing, text |-> Missing, source |-> Missing]

WhatsappRequests ==
    {[endpoint |-> "whatsapp", json |-> "none", key |-> Missing, sig |-> s,
      user |-> Missing, text |-> Missing, source |-> Missing] : s \in Signatures}
    \cup
    {[endpoint |-> "whatsapp", json |-> "obj", key |-> Missing, sig |-> s,
      user |-> u, text |-> t, source |-> Missing] :
        s \in Signatures, u \in FieldValues(Users), t \in FieldValues(Texts)}

ApiRequests ==
    {[endpoint |-> "api", json |-> "none", key |-> k, sig |-> Missing,
      user |-> Missing, text |-> Missing, source |-> Missing] : k \in ApiKeys}
    \cup
    {[endpoint |-> "api", json |-> "obj", key |-> k, sig |-> Missing,
      user |-> u, text |-> t, source |-> s] :
        k \in ApiKeys, u \in FieldValues(Users), t \in FieldValues(Texts),
        s \in {Missing, "telegram"}}

\* A canonical message built with user_id and message exchanged.
WebhookMessage_swapped(source, user_id, message) ==
    [source |-> source, user_id |-> message, message |-> user_id,
     timestamp |-> "utcnow"]

\* WebhookMessage(...).dict(): the canonical message handed to the topic.
WebhookMessage(source, user_id, message) ==
    [source |-> source, user_id |-> user_id, message |-> message,
     timestamp |-> "utcnow"]

\* What running a handler body gives: the HTTP status, whether it left by an
\* exception (abort() raises an HTTPException), the number of publisher.publish
\* calls, the messages the topic accepted, and the steps it went through.
Returned(status, attempts, msgs, trace) ==
    [status |-> status, raised |-> FALSE, aborted |-> 0, attempts |-> attempts,
     msgs |-> msgs, trace |-> trace]

Raised(aborted, attempts, trace) ==
    [status |-> aborted, raised |-> TRUE, aborted |-> aborted,
     attempts |-> attempts, msgs |-> <<>>, trace |-> trace]

\* A publish that tries once more when the first attempt fails.
publish_to_pubsub_retry(message_data, pubOk, trace) ==
    IF pubOk
    THEN Returned(200, 1, <<message_data>>, Append(trace, "publish"))
    ELSE Raised(0, 2, Append(Append(trace, "publish"), "publish"))

\* publish_to_pubsub: one publisher.publish call; future.result() gives the
\* message id or raises, and the exception is logged and re-raised.
publish_to_pubsub(message_data, pubOk, trace) ==
    IF pubOk
    THEN Returned(200, 1, <<message_data>>, Append(trace, "publish"))
    ELSE Raised(0, 1, Append(trace, "publish"))

\* `except Exception as e: ... abort(500)`: every exception that leaves the try
\* block, the HTTPException of an abort(400) or abort(401) included, ends as 500.
ExceptAbort500(inner) ==
    IF inner.raised THEN [inner EXCEPT !.status = 500] ELSE inner

\* The try block of whatsapp_webhook. The signature check is commented out:
\* req.sig is never read.
whatsapp_try(req, pubOk) ==
    IF req.json = "none"
    THEN Raised(400, 0, <<"parse">>)
    ELSE LET user_id == GetOr(req.user, "")
             message_text == GetOr(req.text, "")
         IN  IF Falsy(user_id) \/ Falsy(message_text)
             THEN Raised(400, 0, <<"parse", "validate">>)
             ELSE publish_to_pubsub(
                      WebhookMessage("whatsapp", user_id, message_text),
                      pubOk, <<"parse", "validate">>)

whatsapp_webhook(req, pubOk) == ExceptAbort500(whatsapp_try(req, pubOk))

\* The try block of api_webhook.
api_try(req, secret, pubOk) ==
    IF Falsy(req.key)
    THEN Raised(401, 0, <<"auth">>)
    ELSE IF secret = SecretError
    THEN Raised(0, 0, <<"auth">>)
    ELSE IF req.key # secret
    THEN Raised(401, 0, <<"auth">>)
    ELSE IF req.json = "none"
    THEN Raised(400, 0, <<"auth", "parse">>)
    ELSE LET user_id == GetOr(req.user, "")
             message == GetOr(req.text, "")
             source == GetOr(req.source, "api")
         IN  IF Falsy(user_id) \/ Falsy(message)
             THEN Raised(400, 0, <<"auth", "parse", "validate">>)
             ELSE publish_to_pubsub(
                      WebhookMessage(source, user_id, message),
                      pubOk, <<"auth", "parse", "validate">>)

api_webhook(req, secret, pubOk) == ExceptAbort500(api_try(req, secret, pubOk))

\* The topic assigns each accepted message its id.
TopicAccept(queue, msgs) ==
    queue \o [i \in 1..Len(msgs) |->
                 [id |-> Len(queue) + i, data |-> msgs[i]]]

\* The response body: WebhookResponse(status="success", message_id=...) on
\* success, the error envelope of the errorhandler otherwise.
Response(out, queue) ==
    [status |-> out.status,
     body |-> IF out.status = 200 THEN "success" ELSE "error",
     message_id |-> IF out.status = 200 THEN Len(queue) + 1 ELSE 0,
     aborted |-> out.aborted,
     attempts |-> out.attempts,
     trace |-> out.trace]

NoResponse ==
    [status |-> 0, body |-> "none", message_id |-> 0, aborted |-> 0,
     attempts |-> 0, trace |-> <<>>]

Handle(req, secret, pubOk, out) ==
    /\ gwHandled < MaxRequests
    /\ gwHandled' = gwHandled + 1
    /\ gwReq' = req
    /\ gwEnv' = [secret |-> secret, pubOk |-> pubOk,
                 resolved |-> IF "auth" \in {out.trace[i] : i \in DOMAIN out.trace}
                                 /\ ~Falsy(req.key)
                              THEN get_secret("api-webhook-key", secret)
                              ELSE Missing]
    /\ gwResp' = Response(out, gwQueue)
    /\ gwQueue' = TopicAccept(gwQueue, out.msgs)
    /\ environ' = environ
    /\ UNCHANGED <<wkVars, djVars>>

\* POST /webhook/whatsapp
WhatsappWebhook ==
    \E req \in WhatsappRequests, pubOk \in BOOLEAN :
        Handle(req, ValidApiKey, pubOk, whatsapp_webhook(req, pubOk))

\* POST /webhook/api
ApiWebhook ==
    \E req \in ApiRequests, secret \in GetSecretResults, pubOk \in BOOLEAN :
        Handle(req, secret, pubOk,
               api_webhook(req, get_secret("api-webhook-key", secret), pubOk))

(***************************************************************************)
(* Frontend: session views                                                 *)
(***************************************************************************)
\* UserLoginView.post with valid credentials: UserSession.objects.create(...),
\* then the JWT pair. The request is served in the session it creates.
Login(u) ==
    /\ Len(sessions) < MaxSessions
    /\ sessions' = Append(sessions, [user |-> u, is_active |-> TRUE])
    /\ djReq' = [op |-> "login", user |-> u, current |-> Len(sessions) + 1,
                 session_id |-> 0, status |-> 200]
    /\ UNCHANGED <<gwVars, wkVars, usageVars>>

\* A delete that looks the session up by id alone, without user=request.user.
SessionsDelete_any_user(u, current, session_id) ==
    /\ current \in DOMAIN sessions
    /\ sessions[current].user = u
    /\ IF session_id # 0
       THEN IF session_id \in DOMAIN sessions
            THEN /\ sessions' = [sessions EXCEPT ![session_id].is_active = FALSE]
                 /\ djReq' = [op |-> "delete", user |-> u, current |-> current,
                              session_id |-> session_id, status |-> 200]
            ELSE /\ sessions' = sessions
                 /\ djReq' = [op |-> "delete", user |-> u, current |-> current,
                              session_id |-> session_id, status |-> 404]
       ELSE /\ sessions' = [i \in DOMAIN sessions |->
                               IF sessions[i].user = u /\ sessions[i].is_active
                               THEN [sessions[i] EXCEPT !.is_active = FALSE]
                               ELSE sessions[i]]
            /\ djReq' = [op |-> "delete", user |-> u, current |-> current,
                         session_id |-> 0, status |-> 200]
    /\ UNCHANGED <<gwVars, wkVars, usageVars>>

\* UserSessionsView.delete(request, session_id): session_id 0 stands for the
\* route without it (session_id=None). `current` is the session whose login
\* issued the token the request carries.
SessionsDelete(u, current, session_id) ==
    /\ current \in DOMAIN sessions
    /\ sessions[current].user = u
    /\ IF session_id # 0
       THEN IF session_id \in DOMAIN sessions /\ sessions[session_id].user = u
            THEN /\ sessions' = [sessions EXCEPT ![session_id].is_active = FALSE]
                 /\ djReq' = [op |-> "delete", user |-> u, current |-> current,
                              session_id |-> session_id, status |-> 200]
            ELSE /\ sessions' = sessions
                 /\ djReq' = [op |-> "delete", user |-> u, current |-> current,
                              session_id |-> session_id, status |-> 404]
       ELSE /\ sessions' = [i \in DOMAIN sessions |->
                               IF sessions[i].user = u /\ sessions[i].is_active
                               THEN [sessions[i] EXCEPT !.is_active = FALSE]
                               ELSE sessions[i]]
            /\ djReq' = [op |-> "delete", user |-> u, current |-> current,
                         session_id |-> 0, status |-> 200]
    /\ UNCHANGED <<gwVars, wkVars, usageVars>>

\* track_api_usage, the request arrives: authentication loads request.user, the
\* row of the users table as it is now, into the request's own User object.
TrackAuthenticate(u) ==
    /\ Len(track) < MaxTracks
    /\ track' = Append(track, [user |-> u, api_usage_count |-> api_usage_count[u],
                               pc |-> "create", status |-> 0])
    /\ UNCHANGED <<sessions, djReq, api_usage_count, api_usage>>
    /\ UNCHANGED <<gwVars, wkVars>>

\* track_api_usage: APIUsage.objects.create(user=request.user, ...); an exception
\* is answered with status 400.
TrackCreate(r, ok) ==
    /\ track[r].pc = "create"
    /\ IF ok
       THEN /\ api_usage' = Append(api_usage, [user |-> track[r].user, request |-> r])
            /\ track' = [track EXCEPT ![r].pc = "save"]
       ELSE /\ api_usage' = api_usage
            /\ track' = [track EXCEPT ![r].pc = "done", ![r].status = 400]
    /\ UNCHANGED <<sessions, djReq, api_usage_count>>
    /\ UNCHANGED <<gwVars, wkVars>>

\* track_api_usage: request.user.api_usage_count += 1 on the object loaded at
\* authentication, request.user.save(update_fields=[...]) writes that value to
\* the row, and 'Usage tracked' is returned.
TrackSave(r) ==
    /\ track[r].pc = "save"
    /\ api_usage_count' = [api_usage_count EXCEPT
                              ![track[r].user] = track[r].api_usage_count + 1]
    /\ track' = [track EXCEPT ![r].pc = "done", ![r].status = 200,
                              ![r].api_usage_count = @ + 1]
    /\ UNCHANGED <<sessions, djReq, api_usage>>
    /\ UNCHANGED <<gwVars, wkVars>>

\* Concurrent requests to track_api_usage.
UsageNext ==
    \/ \E u \in Users : TrackAuthenticate(u)
    \/ \E r \in DOMAIN track, ok \in BOOLEAN : TrackCreate(r, ok)
    \/ \E r \in DOMAIN track : TrackSave(r)

SessionNext ==
    \/ \E u \in Users : Login(u)
    \/ \E u \in Users : \E current \in DOMAIN sessions :
          \E session_id \in 0..(Len(sessions) + 1) :
              SessionsDelete(u, current, session_id)

(***************************************************************************)
(* Worker                                                                  *)
(***************************************************************************)
\* The messages on the inbound subscription: what the listener publishes, and
\* payloads that do not decode or do not validate.
Inbound ==
    << [kind |-> "json", source |-> "api", user_id |-> "u1",
        message |-> "hello", timestamp |-> "utcnow"],
       [kind |-> "json", source |-> "whatsapp", user_id |-> "u2",
        message |-> "bye", timestamp |-> "utcnow"],
       [kind |-> "json", source |-> "api", user_id |-> Missing,
        message |-> "hello", timestamp |-> "utcnow"],
       [kind |-> "garbage", source |-> Missing, user_id |-> Missing,
        message |-> Missing, timestamp |-> Missing] >>

\* FlowControl(max_messages=100)
max_messages == 100

\* get_conversation_history(user_id, limit=20)
history_limit == 20

\* conversation_history[-10:]
openai_window == 10
anthropic_window == 5

\* The threads of the subscriber's executor that run callback: each runs one
\* delivery at a time.
Threads == {"t1", "t2"}

\* The text the provider answers to the d-th delivery.
ReplyTexts == <<"reply-1", "reply-2", "reply-3", "reply-4", "reply-5", "reply-6">>
ReplyText(d) == ReplyTexts[d]

\* The texts of the turns stored before the run, one per document.
StoredTexts ==
    <<"turn-01", "turn-02", "turn-03", "turn-04", "turn-05", "turn-06",
      "turn-07", "turn-08", "turn-09", "turn-10", "turn-11", "turn-12",
      "turn-13", "turn-14", "turn-15", "turn-16", "turn-17", "turn-18",
      "turn-19", "turn-20", "turn-21", "turn-22", "turn-23", "turn-24">>

Terminal == {"acked", "nacked"}

NewDelivery(m) ==
    [msg |-> m, pc |-> "received", hist |-> <<>>, reply |-> Missing,
     ts |-> 0, message_id |-> 0, done |-> <<>>, failed |-> "none",
     calls |-> <<>>, request |-> Missing, usage |-> Missing]

Data(d) == Inbound[dl[d].msg]

InFlight == {d \in DOMAIN dl : dl[d].pc \notin Terminal}

AllTurns == UNION {{turns[u][i] : i \in DOMAIN turns[u]} : u \in Users}

\* An auto-generated document id: fresh.
NewDocId == Cardinality(AllTurns) + 1

\* The step completed: on to pc `next`.
Advance(d, step, next) ==
    [dl EXCEPT ![d].pc = next, ![d].done = Append(@, step)]

\* The exception is logged and swallowed: callback goes on to ack.
Raise_swallowed(d, step) ==
    [dl EXCEPT ![d].pc = "ack", ![d].failed = step]

\* The step raised: the exception propagates to callback's except clause.
Raise(d, step) ==
    [dl EXCEPT ![d].pc = "except", ![d].failed = step]

\* A subscriber without flow control: every pulled message goes to callback.
Receive_unbounded(m) ==
    /\ dl' = Append(dl, NewDelivery(m))
    /\ UNCHANGED <<turns, summary, responses, openai_client, anthropic_client, clock>>
    /\ UNCHANGED <<gwVars, djVars>>

\* start_pubsub_listener: flow_control = FlowControl(max_messages=100). A message
\* is handed to callback only while fewer than max_messages are outstanding.
Receive(m) ==
    /\ Cardinality(InFlight) < max_messages
    /\ dl' = Append(dl, NewDelivery(m))
    /\ UNCHANGED <<turns, summary, responses, openai_client, anthropic_client, clock>>
    /\ UNCHANGED <<gwVars, djVars>>

\* The subscriber hands a message to callback. Pub/Sub delivers at least once:
\* any message may be delivered again, whatever became of its earlier deliveries.
Deliver(m) ==
    /\ Len(dl) < MaxDeliveries
    /\ Cardinality(InFlight) < Cardinality(Threads)
    /\ Receive(m)

\* A callback with a retry budget: a payload that failed to decode once before is
\* acked, so that the subscription drops it.
Decode_retry_budget(d) ==
    /\ dl[d].pc = "received"
    /\ dl' = IF Data(d).kind = "json"
             THEN Advance(d, "decode", "validate")
             ELSE IF \E e \in DOMAIN dl : /\ e # d
                                          /\ dl[e].msg = dl[d].msg
                                          /\ dl[e].failed = "decode"
             THEN [dl EXCEPT ![d].pc = "ack"]
             ELSE Raise(d, "decode")
    /\ UNCHANGED <<turns, summary, responses, openai_client, anthropic_client, clock>>
    /\ UNCHANGED <<gwVars, djVars>>

\* callback: json.loads(message.data.decode('utf-8'))
Decode(d) ==
    /\ dl[d].pc = "received"
    /\ dl' = IF Data(d).kind = "json"
             THEN Advance(d, "decode", "validate")
             ELSE Raise(d, "decode")
    /\ UNCHANGED <<turns, summary, responses, openai_client, anthropic_client, clock>>
    /\ UNCHANGED <<gwVars, djVars>>

\* process_message: ProcessingMessage(**message_data); source, user_id, message
\* and timestamp are required.
ValidMessage(data) ==
    /\ data.source # Missing
    /\ data.user_id # Missing
    /\ data.message # Missing
    /\ data.timestamp # Missing

Validate(d) ==
    /\ dl[d].pc = "validate"
    /\ dl' = IF ValidMessage(Data(d))
             THEN Advance(d, "validate", "check_client")
             ELSE Raise(d, "validate")
    /\ UNCHANGED <<turns, summary, responses, openai_client, anthropic_client, clock>>
    /\ UNCHANGED <<gwVars, djVars>>

\* process_with_openai: `if not openai_client: initialize_ai_clients()`
CheckClient(d) ==
    /\ dl[d].pc = "check_client"
    /\ dl' = [dl EXCEPT ![d].pc = IF openai_client = "unset"
                                  THEN "init_openai" ELSE "history"]
    /\ UNCHANGED <<turns, summary, responses, openai_client, anthropic_client, clock>>
    /\ UNCHANGED <<gwVars, djVars>>

\* initialize_ai_clients: get_secret('openai-api-key'), then the OpenAI client
InitOpenAI(d, ok) ==
    /\ dl[d].pc = "init_openai"
    /\ IF ok
       THEN /\ openai_client' = "set"
            /\ dl' = [dl EXCEPT ![d].pc = "init_anthropic"]
       ELSE /\ openai_client' = openai_client
            /\ dl' = Raise(d, "ai")
    /\ UNCHANGED <<turns, summary, responses, anthropic_client, clock>>
    /\ UNCHANGED <<gwVars, djVars>>

\* initialize_ai_clients: get_secret('anthropic-api-key'), then the Anthropic client
InitAnthropic(d, ok) ==
    /\ dl[d].pc = "init_anthropic"
    /\ IF ok
       THEN /\ anthropic_client' = "set"
            /\ dl' = [dl EXCEPT ![d].pc = "history"]
       ELSE /\ anthropic_client' = anthropic_client
            /\ dl' = Raise(d, "ai")
    /\ UNCHANGED <<turns, summary, responses, openai_client, clock>>
    /\ UNCHANGED <<gwVars, djVars>>

\* The documents of S in an order a query ordered by 'timestamp' can return them,
\* oldest first: documents with equal timestamps come in any order.
RECURSIVE ChronologicalOrders(_)
ChronologicalOrders(S) ==
    IF S = {}
    THEN {<<>>}
    ELSE UNION {{<<x>> \o rest : rest \in ChronologicalOrders(S \ {x})} :
                   x \in {y \in S : \A z \in S : y.timestamp <= z.timestamp}}

\* s[-n:]
LastN(s, n) ==
    IF Len(s) <= n THEN s ELSE SubSeq(s, Len(s) - n + 1, Len(s))

\* reversed(history)
Reverse(s) == [i \in 1..Len(s) |-> s[Len(s) + 1 - i]]

\* A history read that returns the documents as the query streams them, newest
\* first, without reversing them.
get_conversation_history_newest_first(user_id, limit, ok) ==
    IF ok
    THEN {Reverse(LastN(o, limit)) :
             o \in ChronologicalOrders({turns[user_id][i] : i \in DOMAIN turns[user_id]})}
    ELSE {<<>>}

\* get_conversation_history: order_by('timestamp', DESCENDING).limit(limit),
\* reversed; [] when the read raises.
get_conversation_history(user_id, limit, ok) ==
    IF ok
    THEN {LastN(o, limit) :
             o \in ChronologicalOrders({turns[user_id][i] : i \in DOMAIN turns[user_id]})}
    ELSE {<<>>}

\* A role mapping that tests for the user's turns by a source 'user'.
OpenAIMessages_source_user(conversation_history, message) ==
    LET recent == LastN(conversation_history, openai_window)
    IN  [i \in 1..Len(recent) |->
            [role |-> IF recent[i].source = "user" THEN "user" ELSE "assistant",
             content |-> recent[i].message]]
        \o <<[role |-> "user", content |-> message]>>

\* process_with_openai: the messages list sent to the provider.
OpenAIMessages(conversation_history, message) ==
    LET recent == LastN(conversation_history, openai_window)
    IN  [i \in 1..Len(recent) |->
            [role |-> IF recent[i].source # "ai" THEN "user" ELSE "assistant",
             content |-> recent[i].message]]
        \o <<[role |-> "user", content |-> message]>>

\* process_with_anthropic: the conversation text sent to the provider, one entry
\* per line "Human: ..." / "Assistant: ...", ending with the open "Assistant:".
AnthropicConversation(conversation_history, message) ==
    LET recent == LastN(conversation_history, anthropic_window)
    IN  [i \in 1..Len(recent) |->
            [speaker |-> IF recent[i].source # "ai" THEN "Human" ELSE "Assistant",
             text |-> recent[i].message]]
        \o <<[speaker |-> "Human", text |-> message],
             [speaker |-> "Assistant", text |-> ""]>>

\* A history read whose exception is not caught: it fails the attempt.
LoadHistory_raise(d, ok) ==
    /\ dl[d].pc = "history"
    /\ IF ok
       THEN \E h \in get_conversation_history(Data(d).user_id, history_limit, ok) :
               dl' = [dl EXCEPT ![d].pc = "ai_call", ![d].hist = h,
                                ![d].done = Append(@, "history")]
       ELSE dl' = Raise(d, "history")
    /\ UNCHANGED <<turns, summary, responses, openai_client, anthropic_client, clock>>
    /\ UNCHANGED <<gwVars, djVars>>

\* process_with_openai: conversation_history = get_conversation_history(...)
LoadHistory(d, ok) ==
    /\ dl[d].pc = "history"
    /\ \E h \in get_conversation_history(Data(d).user_id, history_limit, ok) :
          dl' = [dl EXCEPT ![d].pc = "ai_call", ![d].hist = h,
                           ![d].done = Append(@, IF ok THEN "history"
                                                       ELSE "history_failed")]
    /\ UNCHANGED <<turns, summary, responses, openai_client, anthropic_client, clock>>
    /\ UNCHANGED <<gwVars, djVars>>

\* The provider process_message dispatches to: process_with_openai.
DefaultProvider == "openai"

\* A provider call that is tried a second time when the first attempt raises.
AICall_retry(d, ok) ==
    /\ dl[d].pc = "ai_call"
    /\ dl' = [Advance(d, "ai", "add_user") EXCEPT
                 ![d].reply = ReplyText(d), ![d].hist = <<>>,
                 ![d].calls = IF ok THEN Append(@, DefaultProvider)
                              ELSE Append(Append(@, DefaultProvider), DefaultProvider)]
    /\ UNCHANGED <<turns, summary, responses, openai_client, anthropic_client, clock>>
    /\ UNCHANGED <<gwVars, djVars>>

\* A dispatch that turns to the other provider when the default one fails.
AICall_fallback(d, ok) ==
    /\ dl[d].pc = "ai_call"
    /\ dl' = IF ok
             THEN [Advance(d, "ai", "add_user") EXCEPT
                      ![d].reply = ReplyText(d), ![d].hist = <<>>,
                      ![d].calls = Append(@, DefaultProvider)]
             ELSE [Advance(d, "ai", "add_user") EXCEPT
                      ![d].reply = ReplyText(d), ![d].hist = <<>>,
                      ![d].calls = Append(Append(@, DefaultProvider), "anthropic")]
    /\ UNCHANGED <<turns, summary, responses, openai_client, anthropic_client, clock>>
    /\ UNCHANGED <<gwVars, djVars>>

\* A dispatch that reuses the reply an earlier delivery of the message obtained.
AICall_cached(d, ok) ==
    /\ dl[d].pc = "ai_call"
    /\ LET earlier == {e \in DOMAIN dl : /\ e < d
                                         /\ dl[e].msg = dl[d].msg
                                         /\ dl[e].reply # Missing}
       IN  dl' = IF earlier # {}
                 THEN [dl EXCEPT ![d].pc = "add_user", ![d].hist = <<>>,
                                 ![d].reply = dl[CHOOSE e \in earlier : TRUE].reply]
                 ELSE IF ok
                 THEN [Advance(d, "ai", "add_user") EXCEPT
                          ![d].reply = ReplyText(d), ![d].hist = <<>>,
                          ![d].calls = Append(@, DefaultProvider)]
                 ELSE [Raise(d, "ai") EXCEPT
                          ![d].hist = <<>>, ![d].calls = Append(@, DefaultProvider)]
    /\ UNCHANGED <<turns, summary, responses, openai_client, anthropic_client, clock>>
    /\ UNCHANGED <<gwVars, djVars>>

\* The keyword arguments of openai_client.chat.completions.create, the messages
\* list (OpenAIMessages) aside.
OpenAIRequest == [model |-> "gpt-4", max_tokens |-> 1000, temperature |-> "0.7"]

\* AIResponse.usage of process_with_openai: the keys, each holding the count the
\* provider reported.
OpenAIUsage == {"prompt_tokens", "completion_tokens", "total_tokens"}

\* The keyword arguments of anthropic_client.messages.create, the messages list
\* (AnthropicConversation) aside.
AnthropicRequest == [model |-> "claude-3-sonnet-20240229", max_tokens |-> 1000]

\* AIResponse.usage of process_with_anthropic.
AnthropicUsage == {"input_tokens", "output_tokens"}

\* process_with_anthropic from its provider call on:
\* anthropic_client.messages.create(...), AIResponse(...).
AnthropicCall(d, ok) ==
    /\ dl[d].pc = "ai_call"
    /\ dl' = IF ok
             THEN [Advance(d, "ai", "add_user") EXCEPT
                      ![d].reply = ReplyText(d), ![d].hist = <<>>,
                      ![d].calls = Append(@, "anthropic"),
                      ![d].request = AnthropicRequest,
                      ![d].usage = AnthropicUsage]
             ELSE [Raise(d, "ai") EXCEPT
                      ![d].hist = <<>>, ![d].calls = Append(@, "anthropic"),
                      ![d].request = AnthropicRequest]
    /\ UNCHANGED <<turns, summary, responses, openai_client, anthropic_client, clock>>
    /\ UNCHANGED <<gwVars, djVars>>

\* process_with_openai: openai_client.chat.completions.create(...), AIResponse(...).
\* One call to the provider, whose exception is logged and re-raised.
AICall(d, ok) ==
    /\ dl[d].pc = "ai_call"
    /\ dl' = IF ok
             THEN [Advance(d, "ai", "add_user") EXCEPT
                      ![d].reply = ReplyText(d), ![d].hist = <<>>,
                      ![d].calls = Append(@, DefaultProvider),
                      ![d].request = OpenAIRequest,
                      ![d].usage = OpenAIUsage]
             ELSE [Raise(d, "ai") EXCEPT
                      ![d].hist = <<>>, ![d].calls = Append(@, DefaultProvider),
                      ![d].request = OpenAIRequest]
    /\ UNCHANGED <<turns, summary, responses, openai_client, anthropic_client, clock>>
    /\ UNCHANGED <<gwVars, djVars>>

\* save_message_to_firestore: message_doc
MessageDoc(d, id, timestamp) ==
    [id |-> id, source |-> Data(d).source, user_id |-> Data(d).user_id,
     message |-> Data(d).message, timestamp |-> timestamp, att |-> d]

\* save_message_to_firestore: response_doc
ResponseDoc(d, id) ==
    [id |-> id, source |-> "ai", user_id |-> Data(d).user_id,
     message |-> dl[d].reply, timestamp |-> dl[d].ts, att |-> d]

\* A conditional append: the user turn is written only when the store holds no
\* user turn with this text for the user yet.
AddUserTurn_dedup(d, ok) ==
    /\ dl[d].pc = "add_user"
    /\ LET t == clock + 1
           seen == \E x \in AllTurns : /\ x.user_id = Data(d).user_id
                                       /\ x.source # "ai"
                                       /\ x.message = Data(d).message
       IN
          /\ clock' = t
          /\ IF ok
             THEN /\ turns' = IF seen THEN turns
                              ELSE [turns EXCEPT ![Data(d).user_id] =
                                       Append(@, MessageDoc(d, NewDocId, t))]
                  /\ dl' = [Advance(d, "add_user", "add_ai") EXCEPT
                               ![d].ts = t, ![d].message_id = NewDocId]
             ELSE /\ turns' = turns
                  /\ dl' = [Raise(d, "add_user") EXCEPT ![d].ts = t]
    /\ UNCHANGED <<summary, responses, openai_client, anthropic_client>>
    /\ UNCHANGED <<gwVars, djVars>>

\* save_message_to_firestore: timestamp = datetime.now(timezone.utc), then
\* messages_ref.add(message_doc). The clock has moved on since it was last read.
AddUserTurn(d, ok) ==
    /\ dl[d].pc = "add_user"
    /\ LET t == clock + 1 IN
          /\ clock' = t
          /\ IF ok
             THEN /\ turns' = [turns EXCEPT ![Data(d).user_id] =
                                  Append(@, MessageDoc(d, NewDocId, t))]
                  /\ dl' = [Advance(d, "add_user", "add_ai") EXCEPT
                               ![d].ts = t, ![d].message_id = NewDocId]
             ELSE /\ turns' = turns
                  /\ dl' = [Raise(d, "add_user") EXCEPT ![d].ts = t]
    /\ UNCHANGED <<summary, responses, openai_client, anthropic_client>>
    /\ UNCHANGED <<gwVars, djVars>>

\* An assistant-turn write whose exception is swallowed: the save goes on.
AddAITurn_continue(d, ok) ==
    /\ dl[d].pc = "add_ai"
    /\ IF ok
       THEN /\ turns' = [turns EXCEPT ![Data(d).user_id] =
                            Append(@, ResponseDoc(d, NewDocId))]
            /\ dl' = Advance(d, "add_ai", "summary")
       ELSE /\ turns' = turns
            /\ dl' = [dl EXCEPT ![d].pc = "summary"]
    /\ UNCHANGED <<summary, responses, openai_client, anthropic_client, clock>>
    /\ UNCHANGED <<gwVars, djVars>>

\* An assistant-turn write through a collection reference kept in a module
\* global: it points at the conversation of the delivery that set it last.
AddAITurn_shared_ref(d, ok) ==
    /\ dl[d].pc = "add_ai"
    /\ LET newest == Data(Len(dl)).user_id
           target == IF newest \in Users THEN newest ELSE Data(d).user_id
       IN IF ok
          THEN /\ turns' = [turns EXCEPT ![target] =
                               Append(@, ResponseDoc(d, NewDocId))]
               /\ dl' = Advance(d, "add_ai", "summary")
          ELSE /\ turns' = turns
               /\ dl' = Raise(d, "add_ai")
    /\ UNCHANGED <<summary, responses, openai_client, anthropic_client, clock>>
    /\ UNCHANGED <<gwVars, djVars>>

\* save_message_to_firestore: messages_ref.add(response_doc)
AddAITurn(d, ok) ==
    /\ dl[d].pc = "add_ai"
    /\ IF ok
       THEN /\ turns' = [turns EXCEPT ![Data(d).user_id] =
                            Append(@, ResponseDoc(d, NewDocId))]
            /\ dl' = Advance(d, "add_ai", "summary")
       ELSE /\ turns' = turns
            /\ dl' = Raise(d, "add_ai")
    /\ UNCHANGED <<summary, responses, openai_client, anthropic_client, clock>>
    /\ UNCHANGED <<gwVars, djVars>>

\* A merge that writes an absolute count instead of an increment.
MergeSummary_absolute(old, d) ==
    [message_count |-> 1,
     last_activity |-> dl[d].ts,
     last_message |-> Data(d).message,
     last_response |-> dl[d].reply,
     att |-> d]

\* A merge that leaves a last_response already present in place, as two separate
\* field updates would when the second is lost.
MergeSummary_stale_response(old, d) ==
    [message_count |-> old.message_count + 1,
     last_activity |-> dl[d].ts,
     last_message |-> Data(d).message,
     last_response |-> IF old.last_response # Missing THEN old.last_response
                       ELSE dl[d].reply,
     att |-> d]

\* A merge that recomputes the count from the user turns the log holds.
MergeSummary_recount(old, d) ==
    [message_count |-> Cardinality({t \in AllTurns : /\ t.user_id = Data(d).user_id
                                                     /\ t.source # "ai"}),
     last_activity |-> dl[d].ts,
     last_message |-> Data(d).message,
     last_response |-> dl[d].reply,
     att |-> d]

\* A merge that counts turns: two per exchange.
MergeSummary_per_turn(old, d) ==
    [message_count |-> old.message_count + 2,
     last_activity |-> dl[d].ts,
     last_message |-> Data(d).message,
     last_response |-> dl[d].reply,
     att |-> d]

\* conversation_ref.set({...'message_count': firestore.Increment(1)...}, merge=True)
MergeSummary(old, d) ==
    [message_count |-> old.message_count + 1,
     last_activity |-> dl[d].ts,
     last_message |-> Data(d).message,
     last_response |-> dl[d].reply,
     att |-> d]

\* A summary write that keeps last_message / last_response of a newer exchange:
\* an exchange older than the one summarised only raises the count.
SetSummary_newest_wins(d, ok) ==
    /\ dl[d].pc = "summary"
    /\ IF ok
       THEN /\ summary' = [summary EXCEPT ![Data(d).user_id] =
                              IF @.last_activity > dl[d].ts
                              THEN [@ EXCEPT !.message_count = @ + 1]
                              ELSE MergeSummary(@, d)]
            /\ dl' = Advance(d, "summary", "publish")
       ELSE /\ summary' = summary
            /\ dl' = Raise(d, "summary")
    /\ UNCHANGED <<turns, responses, openai_client, anthropic_client, clock>>
    /\ UNCHANGED <<gwVars, djVars>>

\* A summary write whose failure is logged and ignored: the attempt goes on to
\* publish its result.
SetSummary_best_effort(d, ok) ==
    /\ dl[d].pc = "summary"
    /\ IF ok
       THEN /\ summary' = [summary EXCEPT ![Data(d).user_id] = MergeSummary(@, d)]
            /\ dl' = Advance(d, "summary", "publish")
       ELSE /\ summary' = summary
            /\ dl' = [dl EXCEPT ![d].pc = "publish"]
    /\ UNCHANGED <<turns, responses, openai_client, anthropic_client, clock>>
    /\ UNCHANGED <<gwVars, djVars>>

\* save_message_to_firestore: conversation_ref.set({...}, merge=True)
SetSummary(d, ok) ==
    /\ dl[d].pc = "summary"
    /\ IF ok
       THEN /\ summary' = [summary EXCEPT ![Data(d).user_id] = MergeSummary(@, d)]
            /\ dl' = Advance(d, "summary", "publish")
       ELSE /\ summary' = summary
            /\ dl' = Raise(d, "summary")
    /\ UNCHANGED <<turns, responses, openai_client, anthropic_client, clock>>
    /\ UNCHANGED <<gwVars, djVars>>

\* process_message: ProcessingResult(message_id=firestore_ids['message_id'], ...)
ProcessingResult(d) ==
    [message_id |-> dl[d].message_id,
     user_id |-> Data(d).user_id,
     original_message |-> Data(d).message,
     ai_response |-> dl[d].reply,
     source |-> Data(d).source,
     att |-> d]

\* publish_response_to_pubsub(result)
PublishResponse(d, ok) ==
    /\ dl[d].pc = "publish"
    /\ IF ok
       THEN /\ responses' = Append(responses, ProcessingResult(d))
            /\ dl' = Advance(d, "publish", "ack")
       ELSE /\ responses' = responses
            /\ dl' = Raise(d, "publish")
    /\ UNCHANGED <<turns, summary, openai_client, anthropic_client, clock>>
    /\ UNCHANGED <<gwVars, djVars>>

\* An ack on receipt, before the processing attempt.
Ack_on_receipt(d) ==
    /\ dl[d].pc \in {"received", "ack"}
    /\ dl' = Advance(d, "ack", "acked")
    /\ UNCHANGED <<turns, summary, responses, openai_client, anthropic_client, clock>>
    /\ UNCHANGED <<gwVars, djVars>>

\* callback: message.ack()
Ack(d) ==
    /\ dl[d].pc = "ack"
    /\ dl' = Advance(d, "ack", "acked")
    /\ UNCHANGED <<turns, summary, responses, openai_client, anthropic_client, clock>>
    /\ UNCHANGED <<gwVars, djVars>>

\* An except clause that only logs: the message is neither acked nor nacked and
\* stays outstanding.
Nack_drop(d) ==
    /\ dl[d].pc = "except"
    /\ dl' = [dl EXCEPT ![d].pc = "outstanding", ![d].done = Append(@, "log")]
    /\ UNCHANGED <<turns, summary, responses, openai_client, anthropic_client, clock>>
    /\ UNCHANGED <<gwVars, djVars>>

\* A nack that first deletes the documents the attempt wrote.
Nack_rollback(d) ==
    /\ dl[d].pc = "except"
    /\ dl' = Advance(d, "nack", "nacked")
    /\ turns' = [u \in Users |-> SelectSeq(turns[u], LAMBDA t : t.att # d)]
    /\ UNCHANGED <<summary, responses, openai_client, anthropic_client, clock>>
    /\ UNCHANGED <<gwVars, djVars>>

\* callback: except Exception: message.nack()
Nack(d) ==
    /\ dl[d].pc = "except"
    /\ dl' = Advance(d, "nack", "nacked")
    /\ UNCHANGED <<turns, summary, responses, openai_client, anthropic_client, clock>>
    /\ UNCHANGED <<gwVars, djVars>>

\* The listener before its first request.
GatewayStart ==
    /\ gwQueue = <<>>
    /\ gwReq = NoRequest
    /\ gwEnv = [secret |-> ValidApiKey, pubOk |-> TRUE, resolved |-> Missing]
    /\ gwResp = NoResponse
    /\ gwHandled = 0

\* An environment with none of the variables set.
NoEnviron == [n \in EnvNames |-> Missing]

GatewayInit == GatewayStart /\ environ = NoEnviron

GatewayNext == WhatsappWebhook \/ ApiWebhook

NoSummary ==
    [message_count |-> 0, last_activity |-> 0, last_message |-> Missing,
     last_response |-> Missing, att |-> 0]

WorkerInit ==
    /\ dl = <<>>
    /\ turns = [u \in Users |-> <<>>]
    /\ summary = [u \in Users |-> NoSummary]
    /\ responses = <<>>
    /\ openai_client = "unset"
    /\ anthropic_client = "unset"
    /\ clock = 0

WorkerNext ==
    \/ \E m \in DOMAIN Inbound : Deliver(m)
    \/ \E d \in DOMAIN dl : Decode(d)
    \/ \E d \in DOMAIN dl : Validate(d)
    \/ \E d \in DOMAIN dl : CheckClient(d)
    \/ \E d \in DOMAIN dl, ok \in BOOLEAN : InitOpenAI(d, ok)
    \/ \E d \in DOMAIN dl, ok \in BOOLEAN : InitAnthropic(d, ok)
    \/ \E d \in DOMAIN dl, ok \in BOOLEAN : LoadHistory(d, ok)
    \/ \E d \in DOMAIN dl, ok \in BOOLEAN : AICall(d, ok)
    \/ \E d \in DOMAIN dl, ok \in BOOLEAN : AddUserTurn(d, ok)
    \/ \E d \in DOMAIN dl, ok \in BOOLEAN : AddAITurn(d, ok)
    \/ \E d \in DOMAIN dl, ok \in BOOLEAN : SetSummary(d, ok)
    \/ \E d \in DOMAIN dl, ok \in BOOLEAN : PublishResponse(d, ok)
    \/ \E d \in DOMAIN dl : Ack(d)
    \/ \E d \in DOMAIN dl : Nack(d)

\* The frontend with no session row yet.
FrontendInit ==
    /\ sessions = <<>>
    /\ djReq = [op |-> "none", user |-> Missing, current |-> 0, session_id |-> 0,
                status |-> 0]
    /\ api_usage_count = [u \in Users |-> 0]
    /\ api_usage = <<>>
    /\ track = <<>>

Init == GatewayInit /\ WorkerInit /\ FrontendInit

\* The turns a user's log holds from earlier exchanges: user turn and assistant
\* turn of an exchange carry the same timestamp; an odd count ends with the user
\* turn of an attempt whose assistant turn was never written.
StoredTurn(i) ==
    [id |-> i,
     source |-> IF i % 2 = 0 THEN "ai" ELSE IF i % 4 = 1 THEN "api" ELSE "whatsapp",
     user_id |-> "u1",
     message |-> StoredTexts[i], timestamp |-> (i + 1) \div 2, att |-> 0]

StoredLog(K) == [i \in 1..K |-> StoredTurn(i)]

StoredSummary(K) ==
    IF K < 2
    THEN NoSummary
    ELSE [message_count |-> K \div 2,
          last_activity |-> K \div 2,
          last_message |-> StoredTexts[2 * (K \div 2) - 1],
          last_response |-> StoredTexts[2 * (K \div 2)],
          att |-> 0]

\* The worker starts on a store that holds K turns for user u1.
HistoryInit ==
    /\ GatewayInit
    /\ FrontendInit
    /\ dl = <<>>
    /\ responses = <<>>
    /\ openai_client = "unset"
    /\ anthropic_client = "unset"
    /\ \E K \in 0..MaxStored :
          /\ turns = [u \in Users |-> IF u = "u1" THEN StoredLog(K) ELSE <<>>]
          /\ summary = [u \in Users |-> IF u = "u1" THEN StoredSummary(K)
                                                     ELSE NoSummary]
          /\ clock = (K + 1) \div 2

\* One delivery, processed against the stored log.
HistoryNext ==
    \/ \E m \in DOMAIN Inbound : Len(dl) = 0 /\ Deliver(m)
    \/ \E d \in DOMAIN dl : Decode(d)
    \/ \E d \in DOMAIN dl : Validate(d)
    \/ \E d \in DOMAIN dl : CheckClient(d)
    \/ \E d \in DOMAIN dl, ok \in BOOLEAN : InitOpenAI(d, ok)
    \/ \E d \in DOMAIN dl, ok \in BOOLEAN : InitAnthropic(d, ok)
    \/ \E d \in DOMAIN dl, ok \in BOOLEAN : LoadHistory(d, ok)
    \/ \E d \in DOMAIN dl, ok \in BOOLEAN : AICall(d, ok)
    \/ \E d \in DOMAIN dl, ok \in BOOLEAN : AddUserTurn(d, ok)
    \/ \E d \in DOMAIN dl, ok \in BOOLEAN : AddAITurn(d, ok)
    \/ \E d \in DOMAIN dl, ok \in BOOLEAN : SetSummary(d, ok)
    \/ \E d \in DOMAIN dl, ok \in BOOLEAN : PublishResponse(d, ok)
    \/ \E d \in DOMAIN dl : Ack(d)
    \/ \E d \in DOMAIN dl : Nack(d)

HistorySpec == HistoryInit /\ [][HistoryNext]_vars

\* One delivery processed against the stored log by either provider variant:
\* process_message dispatching to process_with_openai, or to
\* process_with_anthropic in its place.
ProviderNext ==
    \/ HistoryNext
    \/ \E d \in DOMAIN dl, ok \in BOOLEAN : AnthropicCall(d, ok)

ProviderSpec == HistoryInit /\ [][ProviderNext]_vars

\* A payload that does not decode: its deliveries all take the same path.
Poison == CHOOSE m \in DOMAIN Inbound : Inbound[m].kind # "json"

\* The oldest delivery still outstanding.
Oldest(d) == d \in InFlight /\ \A e \in InFlight : d <= e

\* The subscriber under load: up to MaxPulled deliveries of one message, the
\* outstanding ones settled in arrival order.
FlowNext ==
    \/ Len(dl) < MaxPulled /\ Receive(Poison)
    \/ \E d \in DOMAIN dl : Oldest(d) /\ Decode(d)
    \/ \E d \in DOMAIN dl : Oldest(d) /\ Nack(d)

FlowSpec == Init /\ [][FlowNext]_vars

\* The well-formed messages the gateway published.
Published == {m \in DOMAIN Inbound :
                 Inbound[m].kind = "json" /\ ValidMessage(Inbound[m])}

\* The external calls that have failed so far: the steps that raised and the
\* history reads that came back empty.
Failures ==
    Cardinality({d \in DOMAIN dl : dl[d].failed # "none"})
  + Cardinality({d \in DOMAIN dl :
                    \E i \in DOMAIN dl[d].done : dl[d].done[i] = "history_failed"})

\* The outcomes an external call can have: from the MaxFailures-th failure on
\* every call succeeds.
Outcomes == IF Failures < MaxFailures THEN BOOLEAN ELSE {TRUE}

\* The subscription hands over a published message that is not acked and has no
\* delivery outstanding: its first delivery, and its redelivery after
\* message.nack().
Redeliver(m) ==
    /\ m \in Published
    /\ \A d \in DOMAIN dl : dl[d].msg = m => dl[d].pc = "nacked"
    /\ Receive(m)

\* The queue's step and the callbacks' steps of the redelivery loop.
QueueStep == \E m \in DOMAIN Inbound : Redeliver(m)

CallbackStep ==
    \/ \E d \in DOMAIN dl : Decode(d)
    \/ \E d \in DOMAIN dl : Validate(d)
    \/ \E d \in DOMAIN dl : CheckClient(d)
    \/ \E d \in DOMAIN dl, ok \in Outcomes : InitOpenAI(d, ok)
    \/ \E d \in DOMAIN dl, ok \in Outcomes : InitAnthropic(d, ok)
    \/ \E d \in DOMAIN dl, ok \in Outcomes : LoadHistory(d, ok)
    \/ \E d \in DOMAIN dl, ok \in Outcomes : AICall(d, ok)
    \/ \E d \in DOMAIN dl, ok \in Outcomes : AddUserTurn(d, ok)
    \/ \E d \in DOMAIN dl, ok \in Outcomes : AddAITurn(d, ok)
    \/ \E d \in DOMAIN dl, ok \in Outcomes : SetSummary(d, ok)
    \/ \E d \in DOMAIN dl, ok \in Outcomes : PublishResponse(d, ok)
    \/ \E d \in DOMAIN dl : Ack(d)
    \/ \E d \in DOMAIN dl : Nack(d)

RedeliveryNext == QueueStep \/ CallbackStep

\* The worker on a subscription that redelivers, with external calls that fail
\* finitely often. The subscriber's thread pool runs every callback it started
\* and the subscription keeps delivering: both steps are taken when they stay
\* enabled.
RedeliverySpec ==
    Init /\ [][RedeliveryNext]_vars /\ WF_vars(QueueStep) /\ WF_vars(CallbackStep)

\* The listener in a process whose environment may hold the API key under the
\* uppercased name of the secret.
SecretInit ==
    /\ GatewayStart
    /\ environ \in [EnvNames -> {Missing, ValidApiKey}]
    /\ WorkerInit
    /\ FrontendInit

SecretNext == ApiWebhook

SecretSpec == SecretInit /\ [][SecretNext]_vars

SessionSpec == Init /\ [][SessionNext]_vars

UsageSpec == Init /\ [][UsageNext]_vars

Spec == Init /\ [][WorkerNext]_vars

GatewaySpec == Init /\ [][GatewayNext]_vars

(***************************************************************************)
(* Properties of the webhook listener (checked under GatewaySpec)          *)
(***************************************************************************)
\* The step is the handling of one request.
Handled == gwHandled' = gwHandled + 1

\* A payload with non-empty user and text fields, on the API channel with the
\* credential Secret Manager holds.
ValidPayload(req) ==
    /\ req.endpoint \in {"whatsapp", "api"}
    /\ req.json = "obj"
    /\ ~Falsy(req.user)
    /\ ~Falsy(req.text)
    /\ req.endpoint = "api" => req.key = ValidApiKey

\* The request is not turned away by authentication: any WhatsApp request, an
\* API request with the valid key while Secret Manager answers.
Authenticated(req, env) ==
    req.endpoint = "api" => (req.key = ValidApiKey /\ env.secret = ValidApiKey)

\* The step published exactly one message, the canonical form of gwReq', and
\* answered success with the id the topic gave it.
PublishedOnce ==
    /\ Len(gwQueue') = Len(gwQueue) + 1
    /\ SubSeq(gwQueue', 1, Len(gwQueue)) = gwQueue
    /\ gwQueue'[Len(gwQueue')].data.user_id = gwReq'.user
    /\ gwQueue'[Len(gwQueue')].data.message = gwReq'.text
    /\ gwQueue'[Len(gwQueue')].data.source =
          (IF gwReq'.endpoint = "whatsapp" THEN "whatsapp"
           ELSE GetOr(gwReq'.source, "api"))
    /\ gwResp'.attempts = 1
    /\ gwResp'.status = 200
    /\ gwResp'.body = "success"
    /\ gwResp'.message_id = gwQueue'[Len(gwQueue')].id

FieldsMissing(req, env) ==
    /\ req.endpoint \in {"whatsapp", "api"}
    /\ Authenticated(req, env)
    /\ req.json = "obj"
    /\ Falsy(req.user) \/ Falsy(req.text)

\* C4: a payload whose user_id or text is missing or empty is answered with
\* status 400 and nothing is published.
C4_MissingFieldsGet400 ==
    [][(Handled /\ FieldsMissing(gwReq', gwEnv')) =>
          (gwResp'.status = 400 /\ gwResp'.attempts = 0 /\ gwQueue' = gwQueue)]_vars

\* The API credential is missing, or differs from the secret that was resolved.
BadCredential(req, env) ==
    /\ req.endpoint = "api"
    /\ \/ Falsy(req.key)
       \/ env.secret # SecretError /\ req.key # env.secret

\* C5: an API request whose X-API-Key is missing or differs from the resolved
\* secret is answered with status 401 and nothing is published.
C5_BadCredentialGets401 ==
    [][(Handled /\ BadCredential(gwReq', gwEnv')) =>
          (gwResp'.status = 401 /\ gwResp'.attempts = 0 /\ gwQueue' = gwQueue)]_vars

\* The steps of api_webhook a request went through.
Reached(resp) == {resp.trace[i] : i \in DOMAIN resp.trace}

\* C33: on the API channel the credential check comes first: a request with a
\* missing or wrong credential and missing required fields is answered with the
\* authentication error (401), never the validation error, and reaches neither
\* body parsing, field validation nor publish.
C33_CredentialCheckFirst ==
    [][(Handled /\ BadCredential(gwReq', gwEnv')
        /\ (gwReq'.json # "obj" \/ Falsy(gwReq'.user) \/ Falsy(gwReq'.text))) =>
          (/\ gwResp'.status = 401
           /\ Reached(gwResp') = {"auth"}
           /\ gwResp'.attempts = 0
           /\ gwQueue' = gwQueue)]_vars

\* C6: a request without channel identity proof is rejected with 401 and never
\* published, on the WhatsApp endpoint too (stated for the requests that nothing
\* else turns away: a valid payload, a topic that accepts the publish).
C6_NoProofNeverPublished ==
    [][(Handled /\ gwReq'.endpoint = "whatsapp" /\ gwReq'.sig = Missing
        /\ ValidPayload(gwReq') /\ gwEnv'.pubOk) =>
          (gwResp'.status = 401 /\ gwQueue' = gwQueue)]_vars

\* C7: when the publish fails for a request that was otherwise accepted, the
\* listener has made exactly one publish attempt, publishes nothing and answers 500.
C7_PublishFailureNoRetry ==
    [][(Handled /\ ValidPayload(gwReq') /\ Authenticated(gwReq', gwEnv')
        /\ ~gwEnv'.pubOk) =>
          /\ gwResp'.attempts = 1
          /\ Len(SelectSeq(gwResp'.trace, LAMBDA x : x = "publish")) = 1
          /\ gwResp'.status = 500
          /\ gwQueue' = gwQueue]_vars

C7_Witness ==
    /\ gwHandled > 0
    /\ ValidPayload(gwReq)
    /\ Authenticated(gwReq, gwEnv)
    /\ ~gwEnv.pubOk
    /\ gwResp.attempts = 1
    /\ gwResp.status = 500

(***************************************************************************)
(* Properties of the worker (checked under Spec)                           *)
(***************************************************************************)
Steps(d) == {dl[d].done[i] : i \in DOMAIN dl[d].done}

\* The steps of the processing sequence that can raise.
ProcessingSteps ==
    {"decode", "validate", "ai", "add_user", "add_ai", "summary", "publish"}

\* The documents delivery d added to its user's message collection.
UserDocs(d) == {t \in AllTurns : t.att = d /\ t.source # "ai"}
AIDocs(d) == {t \in AllTurns : t.att = d /\ t.source = "ai"}

\* The ProcessingResults delivery d published.
Results(d) == {i \in DOMAIN responses : responses[i].att = d}

\* C1: a delivery is acked if and only if every step of the processing sequence
\* completed without error; as soon as a step raises, the delivery is on its way
\* to nack and is never acked.
C1_AckIffAllStepsSucceeded ==
    \A d \in DOMAIN dl :
        /\ dl[d].pc = "acked" =>
              (dl[d].failed = "none" /\ ProcessingSteps \subseteq Steps(d))
        /\ dl[d].pc = "nacked" => dl[d].failed \in ProcessingSteps
        /\ dl[d].failed # "none" =>
              (dl[d].pc \in {"except", "nacked"}
               /\ "ack" \notin Steps(d)
               /\ dl[d].failed \notin Steps(d))
        /\ (dl[d].failed = "none" /\ ProcessingSteps \subseteq Steps(d)) =>
              dl[d].pc \in {"ack", "acked"}
        /\ dl[d].pc \in Terminal =>
              ("ack" \in Steps(d)) # ("nack" \in Steps(d))

C1_Witness ==
    \E d, e \in DOMAIN dl :
        /\ dl[d].pc = "acked"
        /\ ProcessingSteps \subseteq Steps(d)
        /\ dl[e].pc = "nacked"
        /\ dl[e].failed = "publish"

\* The state of a delivery in the machine Received -> Processing -> {Acked | Nacked}.
Phase(r) ==
    CASE r.pc = "received" -> "Received"
      [] r.pc = "acked" -> "Acked"
      [] r.pc = "nacked" -> "Nacked"
      [] OTHER -> "Processing"

Occurrences(s, x) == Len(SelectSeq(s, LAMBDA y : y = x))

\* C2: every delivery starts Received, goes to Processing and from there to
\* exactly one of Acked and Nacked, where it stays; it is never both acked and
\* nacked, and never acked or nacked straight from Received.
C2_DeliveryStateMachine ==
    [][/\ Len(dl') >= Len(dl)
       /\ \A d \in DOMAIN dl' :
             /\ Occurrences(dl'[d].done, "ack") + Occurrences(dl'[d].done, "nack")
                   = (IF Phase(dl'[d]) \in {"Acked", "Nacked"} THEN 1 ELSE 0)
             /\ Phase(dl'[d]) = "Acked" => Occurrences(dl'[d].done, "ack") = 1
             /\ Phase(dl'[d]) = "Nacked" => Occurrences(dl'[d].done, "nack") = 1
             /\ d \notin DOMAIN dl => Phase(dl'[d]) = "Received"
             /\ d \in DOMAIN dl =>
                   \/ dl'[d] = dl[d]
                   \/ Phase(dl[d]) = "Received" /\ Phase(dl'[d]) = "Processing"
                   \/ Phase(dl[d]) = "Processing"
                         /\ Phase(dl'[d]) \in {"Processing", "Acked", "Nacked"}]_vars

C2_Witness ==
    \E d, e \in DOMAIN dl :
        /\ Phase(dl[d]) = "Acked"
        /\ Phase(dl[e]) = "Nacked"
        /\ dl[e].failed = "decode"

\* C8: once a delivery is acked or nacked, the store never holds its user turn
\* without its assistant turn.
C8_TurnPairAtomic ==
    \A d \in DOMAIN dl :
        dl[d].pc \in Terminal => (UserDocs(d) # {} => AIDocs(d) # {})

\* The user (assistant) turns stored for inbound message m, over all its deliveries.
UserTurnsOfMessage(m) ==
    {t \in AllTurns : t.source # "ai" /\ dl[t.att].msg = m}
AITurnsOfMessage(m) ==
    {t \in AllTurns : t.source = "ai" /\ dl[t.att].msg = m}

\* C9: when an attempt failed after a partial write and a redelivery of the
\* message then succeeded, the store holds exactly one user turn and one
\* assistant turn for the message.
C9_RetryDoesNotDuplicate ==
    \A d, e \in DOMAIN dl :
        (/\ d < e
         /\ dl[d].msg = dl[e].msg
         /\ dl[d].pc = "nacked"
         /\ "add_user" \in Steps(d)
         /\ dl[e].pc = "acked")
        => (/\ Cardinality(UserTurnsOfMessage(dl[d].msg)) = 1
            /\ Cardinality(AITurnsOfMessage(dl[d].msg)) = 1)

\* C10: two deliveries of the same message that both succeed leave two
\* user/assistant turn pairs in the store, each pair holding the inbound text and
\* that attempt's reply, and two ProcessingResults on the response topic.
C10_RedeliveryDuplicates ==
    \A d, e \in DOMAIN dl :
        (d # e /\ dl[d].msg = dl[e].msg /\ dl[d].pc = "acked" /\ dl[e].pc = "acked")
        => (/\ Cardinality(UserDocs(d)) = 1
            /\ Cardinality(UserDocs(e)) = 1
            /\ Cardinality(AIDocs(d)) = 1
            /\ Cardinality(AIDocs(e)) = 1
            /\ \A t \in UserDocs(d) \cup UserDocs(e) : t.message = Data(d).message
            /\ Cardinality({t \in AllTurns : /\ t.user_id = Data(d).user_id
                                             /\ t.source # "ai"
                                             /\ t.message = Data(d).message}) >= 2
            /\ Cardinality({t \in AllTurns : /\ t.user_id = Data(d).user_id
                                             /\ t.source = "ai"}) >= 2
            /\ Cardinality(Results(d)) = 1
            /\ Cardinality(Results(e)) = 1
            /\ Cardinality({i \in DOMAIN responses :
                               /\ responses[i].user_id = Data(d).user_id
                               /\ responses[i].original_message = Data(d).message}) >= 2)

C10_Witness ==
    \E d, e \in DOMAIN dl :
        /\ d # e
        /\ dl[d].msg = dl[e].msg
        /\ dl[d].pc = "acked"
        /\ dl[e].pc = "acked"
        /\ Len(turns[Data(d).user_id]) = 4
        /\ Len(responses) = 2

\* The deliveries for user u whose summary merge-write was applied.
Exchanges(u) ==
    {d \in DOMAIN dl : Data(d).user_id = u /\ "summary" \in Steps(d)}

\* C11: whatever the interleaving of the deliveries for one user, message_count
\* is the number of summary writes applied for the user; once all the user's
\* deliveries have completed successfully it is the number of exchanges. No
\* increment is lost.
C11_NoLostIncrement ==
    \A u \in Users :
        /\ summary[u].message_count = Cardinality(Exchanges(u))
        /\ (\A d \in DOMAIN dl : Data(d).user_id = u => dl[d].pc = "acked") =>
              summary[u].message_count =
                  Cardinality({d \in DOMAIN dl : Data(d).user_id = u})

\* Two deliveries for one user ran concurrently (their turns interleave) and
\* both were acked.
C11_Witness ==
    \E d, e \in DOMAIN dl :
        /\ d # e
        /\ dl[d].pc = "acked"
        /\ dl[e].pc = "acked"
        /\ Data(d).user_id = Data(e).user_id
        /\ Len(turns[Data(d).user_id]) = 4
        /\ turns[Data(d).user_id][1].att # turns[Data(d).user_id][2].att
        /\ summary[Data(d).user_id].message_count = 2

\* What a successfully processed delivery has left behind.
ExchangeEffects(d) ==
    /\ Cardinality(UserDocs(d)) = 1
    /\ \A t \in UserDocs(d) : /\ t.message = Data(d).message
                              /\ t.user_id = Data(d).user_id
                              /\ t \in {turns[Data(d).user_id][i] :
                                           i \in DOMAIN turns[Data(d).user_id]}
    /\ Cardinality(AIDocs(d)) = 1
    /\ \A t \in AIDocs(d) : /\ t.message = dl[d].reply
                            /\ t.message = ReplyText(d)
                            /\ t \in {turns[Data(d).user_id][i] :
                                         i \in DOMAIN turns[Data(d).user_id]}
    /\ Occurrences(dl[d].done, "summary") = 1
    /\ Cardinality(Results(d)) = 1
    /\ \A i \in Results(d) : /\ responses[i].user_id = Data(d).user_id
                             /\ responses[i].original_message = Data(d).message

\* C12: one successful processing of a message for user u appends exactly two
\* turns to u's log (the inbound text, the reply), publishes exactly one
\* ProcessingResult with user_id u and the inbound text, and its one summary
\* write raises u's message_count by exactly 1 (no other step changes a count).
C12_OneExchangeEffects ==
    [][/\ \A d \in DOMAIN dl' : dl'[d].pc = "acked" => ExchangeEffects(d)'
       /\ \A u \in Users :
             summary'[u].message_count =
                 summary[u].message_count +
                 Cardinality({d \in DOMAIN dl : /\ Data(d).user_id = u
                                                /\ dl[d].pc = "summary"
                                                /\ dl'[d].pc = "publish"})]_vars

C12_Witness ==
    \E d \in DOMAIN dl :
        /\ dl[d].pc = "acked"
        /\ Len(dl) = 1
        /\ Len(turns[Data(d).user_id]) = 2
        /\ summary[Data(d).user_id].message_count = 1
        /\ Len(responses) = 1

\* The side effects of one attempt, in the order the code performs them.
EffectOrder == <<"ai", "add_user", "add_ai", "summary", "publish", "ack">>

Effects(d) ==
    SelectSeq(dl[d].done, LAMBDA x : x \notin {"decode", "validate", "history",
                                               "history_failed", "nack"})

\* C13: the effects of an attempt come in the order AI reply, user turn,
\* assistant turn, summary, publish, ack, each only after all the earlier ones
\* succeeded; what the store and the response topic hold agrees with it.
C13_EffectOrder ==
    \A d \in DOMAIN dl :
        LET effects == Effects(d)
            steps == Steps(d)
            userTurn == UserDocs(d) # {}
            aiTurn == AIDocs(d) # {}
            result == Results(d) # {}
        IN  /\ Len(effects) <= Len(EffectOrder)
            /\ effects = SubSeq(EffectOrder, 1, Len(effects))
            /\ (dl[d].reply # Missing) = ("ai" \in steps)
            /\ userTurn = ("add_user" \in steps)
            /\ aiTurn = ("add_ai" \in steps)
            /\ aiTurn => userTurn
            /\ (\E u \in Users : summary[u].att = d) => "summary" \in steps
            /\ "summary" \in steps => aiTurn
            /\ result = ("publish" \in steps)
            /\ result => "summary" \in steps
            /\ (dl[d].pc = "acked") = ("ack" \in steps)
            /\ dl[d].pc = "acked" => result

C13_Witness ==
    \E d \in DOMAIN dl :
        /\ dl[d].pc = "acked"
        /\ Effects(d) = EffectOrder

\* C14: when the result publish fails after the turns and the summary were
\* written, the delivery is nacked and its two turns and its count increment stay
\* in the store.
C14_PublishFailureKeepsWrites ==
    \A d \in DOMAIN dl :
        dl[d].failed = "publish" =>
            /\ dl[d].pc \in {"except", "nacked"}
            /\ Cardinality(UserDocs(d)) = 1
            /\ Cardinality(AIDocs(d)) = 1
            /\ Results(d) = {}
            /\ d \in Exchanges(Data(d).user_id)
            /\ summary[Data(d).user_id].message_count =
                  Cardinality(Exchanges(Data(d).user_id))

C14_Witness ==
    \E d \in DOMAIN dl :
        /\ dl[d].failed = "publish"
        /\ dl[d].pc = "nacked"
        /\ Len(turns[Data(d).user_id]) = 2
        /\ summary[Data(d).user_id].message_count = 1

StoreWrites == {"add_user", "add_ai", "summary"}

\* C15: a store write that fails after the AI call gets the delivery nacked with
\* no result published; a redelivery of the message calls the provider again and
\* writes again from the first turn append, whatever the failed attempt left.
C15_StoreFailureRedoneFromStart ==
    \A d \in DOMAIN dl :
        dl[d].failed \in StoreWrites =>
            /\ dl[d].pc \in {"except", "nacked"}
            /\ "ai" \in Steps(d)
            /\ Results(d) = {}
            /\ \A e \in DOMAIN dl :
                  (e > d /\ dl[e].msg = dl[d].msg) =>
                      /\ "add_user" \in Steps(e) =>
                            (/\ "ai" \in Steps(e)
                             /\ dl[e].calls = <<DefaultProvider>>
                             /\ dl[e].reply = ReplyText(e)
                             /\ Cardinality(UserDocs(e)) = 1
                             /\ UserDocs(e) \cap UserDocs(d) = {})
                      /\ "add_ai" \in Steps(e) => "add_user" \in Steps(e)
                      /\ "summary" \in Steps(e) => "add_ai" \in Steps(e)
                      /\ dl[e].pc = "acked" => StoreWrites \subseteq Steps(e)

C15_Witness ==
    \E d, e \in DOMAIN dl :
        /\ d < e
        /\ dl[d].msg = dl[e].msg
        /\ dl[d].failed = "add_ai"
        /\ dl[d].pc = "nacked"
        /\ dl[e].pc = "acked"
        /\ Cardinality(UserTurnsOfMessage(dl[d].msg)) = 2

\* C16: an attempt calls the default provider only, at most once; when the call
\* or the client initialization fails the attempt has appended no turn, has not
\* changed the summary, has published no result, and ends nacked.
C16_ProviderFailureNoEffects ==
    \A d \in DOMAIN dl :
        /\ Len(dl[d].calls) <= 1
        /\ \A i \in DOMAIN dl[d].calls : dl[d].calls[i] = DefaultProvider
        /\ dl[d].failed = "ai" =>
              /\ dl[d].pc \in {"except", "nacked"}
              /\ dl[d].reply = Missing
              /\ UserDocs(d) = {}
              /\ AIDocs(d) = {}
              /\ Results(d) = {}
              /\ \A u \in Users : summary[u].att # d
              /\ d \notin Exchanges(Data(d).user_id)
              /\ summary[Data(d).user_id].message_count =
                    Cardinality(Exchanges(Data(d).user_id))

\* One attempt failed in the client initialization, one in the provider call.
C16_Witness ==
    \E d, e \in DOMAIN dl :
        /\ dl[d].failed = "ai"
        /\ dl[d].pc = "nacked"
        /\ dl[d].calls = <<>>
        /\ dl[e].failed = "ai"
        /\ dl[e].pc = "nacked"
        /\ dl[e].calls = <<DefaultProvider>>

\* The payload does not decode, or does not validate as a ProcessingMessage.
Malformed(m) == Inbound[m].kind # "json" \/ ~ValidMessage(Inbound[m])

\* C17: a delivery whose payload does not decode or validate is nacked with no
\* AI call, no store write and no publish; the worker keeps no count of it, every
\* redelivery of it ends the same way.
C17_MalformedAlwaysNacked ==
    \A d \in DOMAIN dl :
        Malformed(dl[d].msg) =>
            /\ dl[d].pc \in {"received", "validate", "except", "nacked"}
            /\ dl[d].calls = <<>>
            /\ dl[d].reply = Missing
            /\ UserDocs(d) = {}
            /\ AIDocs(d) = {}
            /\ Results(d) = {}
            /\ \A u \in Users : summary[u].att # d
            /\ dl[d].pc = "nacked" =>
                  dl[d].failed = (IF Inbound[dl[d].msg].kind # "json"
                                  THEN "decode" ELSE "validate")
            /\ \A e \in DOMAIN dl :
                  (dl[e].msg = dl[d].msg /\ dl[d].pc \in Terminal
                   /\ dl[e].pc \in Terminal) =>
                      (/\ dl[e].pc = dl[d].pc
                       /\ dl[e].done = dl[d].done
                       /\ dl[e].failed = dl[d].failed)

C17_Witness ==
    \E d, e \in DOMAIN dl :
        /\ d # e
        /\ dl[d].msg = dl[e].msg
        /\ dl[d].pc = "nacked"
        /\ dl[e].pc = "nacked"
        /\ dl[d].failed = "validate"
        /\ dl[e].failed = "validate"

\* The history read of delivery d raised.
HistoryLoadFailed(d) ==
    "history_failed" \in Steps(d) \/ dl[d].failed = "history"

\* C19: when the history read fails the attempt goes on with an empty history,
\* the prompt holding the new message only; the attempt is nacked only if one of
\* the steps of the processing sequence raises afterwards.
C19_HistoryFailureDegrades ==
    \A d \in DOMAIN dl :
        HistoryLoadFailed(d) =>
            /\ dl[d].failed \in {"none", "ai", "add_user", "add_ai", "summary",
                                 "publish"}
            /\ dl[d].pc = "ai_call" =>
                  (/\ dl[d].hist = <<>>
                   /\ OpenAIMessages(dl[d].hist, Data(d).message) =
                         <<[role |-> "user", content |-> Data(d).message]>>)
            /\ dl[d].pc \in {"except", "nacked"} => dl[d].failed # "none"
            /\ (dl[d].failed = "none" /\ dl[d].pc \in Terminal) =>
                  (dl[d].pc = "acked" /\ ExchangeEffects(d))

\* The history read failed while the user had turns stored; the delivery was
\* acked all the same, its turns stored and its result published.
C19_Witness ==
    \E d \in DOMAIN dl :
        /\ "history_failed" \in Steps(d)
        /\ dl[d].pc = "acked"
        /\ Cardinality(UserDocs(d)) = 1
        /\ Cardinality(AIDocs(d)) = 1
        /\ Cardinality(Results(d)) = 1
        /\ \E t \in AllTurns : /\ t.user_id = Data(d).user_id
                               /\ t.att < d
                               /\ dl[t.att].pc = "acked"

\* The Queue's identifier of the inbound message a result answers.
InboundIdOf(result) == dl[result.att].msg

\* C20: two ProcessingResults produced by two deliveries of the same inbound
\* message carry the same identifying key (the Queue's delivery identifier, or a
\* key derived from it).
C20_ResultsCarryDeliveryKey ==
    \A i, j \in DOMAIN responses :
        InboundIdOf(responses[i]) = InboundIdOf(responses[j]) =>
            responses[i].message_id = responses[j].message_id

(***************************************************************************)
(* Properties of the context assembly (checked under HistorySpec)          *)
(***************************************************************************)
Min(a, b) == IF a <= b THEN a ELSE b

\* The documents stored for user u.
Stored(u) == {turns[u][i] : i \in DOMAIN turns[u]}

\* `contents` are the texts of the `window` most recent documents stored for u,
\* by stored timestamp, oldest first; of all the documents when u has fewer.
RecentWindow(u, window, contents) ==
    LET sel == {t \in Stored(u) : \E i \in DOMAIN contents : contents[i] = t.message}
        DocOf(i) == CHOOSE t \in Stored(u) : t.message = contents[i]
    IN  /\ Len(contents) = Min(Len(turns[u]), window)
        /\ \A i \in DOMAIN contents : \E t \in Stored(u) : t.message = contents[i]
        /\ Cardinality(sel) = Len(contents)
        /\ \A i, j \in DOMAIN contents :
              i < j => DocOf(i).timestamp <= DocOf(j).timestamp
        /\ \A t \in Stored(u) \ sel : \A x \in sel : t.timestamp <= x.timestamp

C35_UserTurnBeforeReply ==
    \A d \in DOMAIN dl :
        "history" \in Steps(d) =>
            \A i, j \in DOMAIN dl[d].hist :
                (/\ dl[d].hist[i].timestamp = dl[d].hist[j].timestamp
                 /\ dl[d].hist[i].source # "ai"
                 /\ dl[d].hist[j].source = "ai") => i < j

C21_CountOnlyIncremented ==
    [][\A u \in Users :
          /\ summary'[u].message_count >= summary[u].message_count
          /\ summary'[u] # summary[u] =>
                summary'[u].message_count = summary[u].message_count + 1]_vars

\* A summary write applied after an attempt for the same user had failed in the
\* store writes and been nacked.
C21_Witness ==
    \E d, e \in DOMAIN dl :
        /\ d < e
        /\ Data(d).user_id = Data(e).user_id
        /\ dl[d].failed = "add_ai"
        /\ dl[d].pc = "nacked"
        /\ "summary" \in Steps(e)
        /\ summary[Data(e).user_id].att = e
        /\ summary[Data(e).user_id].message_count = 1

\* Delivery d's step assigns the global: the statement `openai_client = ...` or
\* `anthropic_client = ...` of initialize_ai_clients completes.
AssignsOpenAI(d) == dl[d].pc = "init_openai" /\ dl'[d].pc = "init_anthropic"
AssignsAnthropic(d) == dl[d].pc = "init_anthropic" /\ dl'[d].pc = "history"

\* C23: whatever the interleaving of the deliveries of one process, each AI
\* client is assigned at most once: no step assigns a client that is already set.
C23_ClientsAssignedOnce ==
    [][\A d \in DOMAIN dl :
          /\ AssignsOpenAI(d) => openai_client = "unset"
          /\ AssignsAnthropic(d) => anthropic_client = "unset"]_vars

\* Delivery d's step is initialize_ai_clients raising.
InitializeRaises(d) ==
    /\ dl[d].pc \in {"init_openai", "init_anthropic"}
    /\ dl'[d].pc = "except"

\* C36: client initialization is all-or-nothing: when initialize_ai_clients
\* raises, openai_client and anthropic_client are both still unset, so that the
\* next delivery initializes again before it calls a provider.
C36_InitializationAllOrNothing ==
    [][\A d \in DOMAIN dl :
          InitializeRaises(d) =>
              (openai_client' = "unset" /\ anthropic_client' = "unset")]_vars

\* C25: the store writes of two deliveries for one user are separate steps that
\* interleave freely: every turn write is one append at the end of the log, and
\* every summary write overwrites last_message / last_response with the values
\* of its own exchange, whichever exchange appended its turns first. A state is
\* reachable (C25_Witness) where the log holds the user turn of A, a turn of B,
\* then the assistant turn of A, and the summary holds the values of A.
C25_WritesInterleave ==
    [][/\ \A u \in Users :
             /\ Len(turns'[u]) <= Len(turns[u]) + 1
             /\ SubSeq(turns'[u], 1, Len(turns[u])) = turns[u]
       /\ \A d \in DOMAIN dl :
             (dl[d].pc = "summary" /\ dl'[d].pc = "publish") =>
                 /\ summary'[Data(d).user_id].att = d
                 /\ summary'[Data(d).user_id].last_message = Data(d).message
                 /\ summary'[Data(d).user_id].last_response = dl[d].reply]_vars

C25_Witness ==
    \E u \in Users : \E A, B \in DOMAIN dl :
        /\ A # B
        /\ Len(turns[u]) >= 3
        /\ turns[u][1].att = A
        /\ turns[u][1].source # "ai"
        /\ turns[u][2].att = B
        /\ turns[u][3].att = A
        /\ turns[u][3].source = "ai"
        /\ summary[u].message_count = 2
        /\ summary[u].att = A
        /\ summary[u].last_message = Data(A).message
        /\ summary[u].last_response = dl[A].reply

\* C27: an attempt calls the default provider, OpenAI, and calls it at most
\* once: a reply comes from exactly one call, a failed call ends the attempt, and
\* the call is made again only by a later delivery of the message.
C27_OneCallPerAttempt ==
    \A d \in DOMAIN dl :
        /\ dl[d].calls \in {<<>>, <<DefaultProvider>>}
        /\ DefaultProvider = "openai"
        /\ dl[d].reply # Missing =>
              (dl[d].calls = <<DefaultProvider>> /\ Occurrences(dl[d].done, "ai") = 1)
        /\ (dl[d].failed = "ai" /\ dl[d].calls # <<>>) =>
              /\ dl[d].pc \in {"except", "nacked"}
              /\ ~("ai" \in Steps(d))
              /\ Len(dl[d].calls) = 1

\* The call of one attempt failed, the attempt was nacked, and a later delivery
\* of the message made the call again and was acked.
C27_Witness ==
    \E d, e \in DOMAIN dl :
        /\ d < e
        /\ dl[d].msg = dl[e].msg
        /\ dl[d].failed = "ai"
        /\ dl[d].calls = <<DefaultProvider>>
        /\ dl[d].pc = "nacked"
        /\ dl[e].calls = <<DefaultProvider>>
        /\ dl[e].pc = "acked"

\* C30: for every user the counters of the pipeline stay ordered: acked
\* deliveries <= results published <= message_count, and 2 x message_count <=
\* turns in the log; so an acked delivery has its result, its increment and its
\* two turns.
C30_CountersOrdered ==
    \A u \in Users :
        LET acked == Cardinality({d \in DOMAIN dl : /\ Data(d).user_id = u
                                                    /\ dl[d].pc = "acked"})
            published == Cardinality({i \in DOMAIN responses :
                                         responses[i].user_id = u})
        IN  /\ acked <= published
            /\ published <= summary[u].message_count
            /\ 2 * summary[u].message_count <= Len(turns[u])

\* One delivery acked, another nacked after its publish failed: 1 acked, 1
\* result, count 2, 4 turns.
C30_Witness ==
    \E u \in Users : \E d, e \in DOMAIN dl :
        /\ Data(d).user_id = u
        /\ Data(e).user_id = u
        /\ dl[d].pc = "acked"
        /\ dl[e].pc = "nacked"
        /\ dl[e].failed = "publish"
        /\ Cardinality({i \in DOMAIN responses : responses[i].user_id = u}) = 1
        /\ summary[u].message_count = 2
        /\ Len(turns[u]) = 4

\* C31: under every interleaving of the deliveries of one user, the summary's
\* last_message and last_response (and last_activity) are those of one exchange:
\* the response is the reply to the message, both set by one merge-write.
C31_SummaryFromOneExchange ==
    \A u \in Users :
        summary[u].message_count > 0 =>
            \E d \in DOMAIN dl :
                /\ Data(d).user_id = u
                /\ "summary" \in Steps(d)
                /\ summary[u].last_message = Data(d).message
                /\ summary[u].last_response = dl[d].reply
                /\ summary[u].last_activity = dl[d].ts
                /\ \E t \in AIDocs(d) : t.message = summary[u].last_response
                /\ \E t \in UserDocs(d) : t.message = summary[u].last_message

\* Two deliveries of one user interleaved their turn writes and both wrote the
\* summary.
C31_Witness ==
    \E u \in Users :
        /\ summary[u].message_count = 2
        /\ Len(turns[u]) = 4
        /\ turns[u][1].att # turns[u][2].att
        /\ turns[u][2].source # "ai"
        /\ summary[u].att = turns[u][1].att

\* C32: once every external call succeeds and the queue keeps redelivering
\* nacked messages, every well-formed message the gateway published is
\* eventually acked by a worker.
C32_EventuallyAcked ==
    \A m \in Published :
        <>(\E d \in DOMAIN dl : dl[d].msg = m /\ dl[d].pc = "acked")

\* A published message was nacked after a failed call and acked on redelivery.
C32_Witness ==
    \E m \in Published, d, e \in DOMAIN dl :
        /\ dl[d].msg = m /\ dl[d].pc = "nacked" /\ dl[d].failed # "none"
        /\ dl[e].msg = m /\ dl[e].pc = "acked" /\ d < e

\* C34: every store write made while processing a delivery for user u targets
\* u's conversation only: a step of a delivery leaves the turn log and the
\* summary of every other user unchanged, and what it adds to u's log carries
\* u's id.
C34_WritesOwnConversationOnly ==
    [][\A d \in DOMAIN dl :
          dl'[d] # dl[d] =>
              /\ \A v \in Users \ {Data(d).user_id} :
                    turns'[v] = turns[v] /\ summary'[v] = summary[v]
              /\ \A v \in Users :
                    \A i \in DOMAIN turns'[v] : turns'[v][i].user_id = v]_vars

\* Deliveries of both users have written their turns and their summary.
C34_Witness ==
    \A u \in Users :
        /\ Len(turns[u]) = 2
        /\ summary[u].message_count = 1
        /\ \E d \in DOMAIN dl : Data(d).user_id = u /\ summary[u].att = d

LoadsHistory(d) ==
    /\ dl[d].pc = "history"
    /\ dl'[d].pc = "ai_call"
    /\ dl'[d].done = Append(dl[d].done, "history")

\* C28: in the OpenAI context a stored turn of source 'ai' has role 'assistant'
\* and every other stored turn role 'user', the turns keep the order they were
\* loaded in, the new message is the last entry with role 'user', and the
\* assembly writes nothing to the store.
C28_RolesAndOrder ==
    [][\A d \in DOMAIN dl :
          LoadsHistory(d) =>
              LET h == dl'[d].hist
                  om == OpenAIMessages(h, Data(d).message)
                  n == Len(om) - 1
              IN  /\ turns' = turns
                  /\ summary' = summary
                  /\ n = Min(Len(h), openai_window)
                  /\ \A i \in 1..n :
                        /\ om[i].content = h[Len(h) - n + i].message
                        /\ om[i].role = IF h[Len(h) - n + i].source = "ai"
                                        THEN "assistant" ELSE "user"
                  /\ om[n + 1] = [role |-> "user", content |-> Data(d).message]]_vars

\* A loaded history longer than the window, its context holding turns of the
\* assistant and of both user channels.
C28_Witness ==
    \E d \in DOMAIN dl :
        /\ dl[d].pc = "ai_call"
        /\ "history" \in Steps(d)
        /\ Len(dl[d].hist) > openai_window
        /\ LET om == OpenAIMessages(dl[d].hist, Data(d).message)
           IN  /\ \E i \in DOMAIN om : om[i].role = "assistant"
               /\ {"api", "whatsapp", "ai"} \subseteq
                     {LastN(dl[d].hist, openai_window)[i].source :
                         i \in 1..openai_window}

(***************************************************************************)
(* Properties of the provider variants (checked under ProviderSpec)        *)
(***************************************************************************)
\* C26: every request sent to a provider, OpenAI or Anthropic, carries a
\* response-length cap and an explicit temperature, and every reply's usage
\* holds the provider's token counts.
C26_RequestCapAndTemperature ==
    \A d \in DOMAIN dl :
        /\ dl[d].calls # <<>> =>
              /\ "max_tokens" \in DOMAIN dl[d].request
              /\ "temperature" \in DOMAIN dl[d].request
        /\ dl[d].reply # Missing =>
              \/ {"prompt_tokens", "completion_tokens"} \subseteq dl[d].usage
              \/ {"input_tokens", "output_tokens"} \subseteq dl[d].usage

(***************************************************************************)
(* Properties of the session views (checked under SessionSpec)             *)
(***************************************************************************)
\* C29: a DELETE on the sessions endpoint without session_id terminates the
\* user's other active sessions and leaves the session of the request active.
C29_CurrentSessionStaysActive ==
    [][(/\ djReq'.op = "delete"
        /\ djReq'.session_id = 0
        /\ djReq'.status = 200
        /\ sessions[djReq'.current].is_active) =>
           /\ sessions'[djReq'.current].is_active
           /\ \A i \in DOMAIN sessions :
                 (i # djReq'.current /\ sessions[i].user = djReq'.user) =>
                     ~sessions'[i].is_active]_vars

\* C38: a user terminates only their own sessions: a DELETE with the id of
\* another user's session is answered 404 and leaves that session as it was,
\* and no DELETE, with or without session_id, changes a session of another user.
C38_OnlyOwnSessionsTerminated ==
    [][djReq'.op = "delete" =>
          /\ (/\ djReq'.session_id \in DOMAIN sessions
              /\ sessions[djReq'.session_id].user # djReq'.user) =>
                 /\ djReq'.status = 404
                 /\ sessions'[djReq'.session_id].is_active
                       = sessions[djReq'.session_id].is_active
          /\ DOMAIN sessions' = DOMAIN sessions
          /\ \A i \in DOMAIN sessions :
                sessions[i].user # djReq'.user => sessions'[i] = sessions[i]]_vars

\* A DELETE aimed at another user's active session was answered 404; the user
\* holds active sessions of their own.
C38_Witness ==
    /\ djReq.op = "delete"
    /\ djReq.status = 404
    /\ djReq.session_id \in DOMAIN sessions
    /\ sessions[djReq.session_id].user # djReq.user
    /\ sessions[djReq.session_id].is_active
    /\ sessions[djReq.current].is_active

(***************************************************************************)
(* Properties of secret resolution (checked under SecretSpec)              *)
(***************************************************************************)
\* The name of a secret, uppercased.
Uppercased == [n \in {"api-webhook-key"} |-> "API-WEBHOOK-KEY"]

\* C24: when the access to the Secret Provider fails and the environment holds a
\* variable of the secret's uppercased name, get_secret returns that variable's
\* value instead of failing.
C24_SecretFallsBackToEnviron ==
    [][(/\ Handled
        /\ gwReq'.endpoint = "api"
        /\ ~Falsy(gwReq'.key)
        /\ gwEnv'.secret = SecretError
        /\ environ[Uppercased["api-webhook-key"]] # Missing) =>
           gwEnv'.resolved = environ[Uppercased["api-webhook-key"]]]_vars

(***************************************************************************)
(* Properties of the usage tracking (checked under UsageSpec)              *)
(***************************************************************************)
\* The track_api_usage requests of user u.
TracksOf(u) == {r \in DOMAIN track : track[r].user = u}

\* C37: when the N track_api_usage requests of a user have all returned 'Usage
\* tracked', whatever their interleaving, the user's api_usage_count is its
\* initial value plus N and exactly N APIUsage rows of the user exist.
C37_NoLostUpdate ==
    \A u \in Users :
        (\A r \in TracksOf(u) : track[r].status = 200) =>
            /\ api_usage_count[u] = Cardinality(TracksOf(u))
            /\ Cardinality({i \in DOMAIN api_usage : api_usage[i].user = u})
                  = Cardinality(TracksOf(u))

====
